---- MODULE Spec2Model ----
(***************************************************************************)
(* A model of generate_gedcom.py: the weighted random sampling functions,  *)
(* the demographic policy tables, the entity factory and the tree builder. *)
(*                                                                         *)
(* Probabilities are Python floats in the source; here they are exact      *)
(* rationals <<n, d>> (d > 0, in lowest terms), so rounding in the last    *)
(* binary digit is not represented.  random.random() is an input: each     *)
(* draw ranges over one representative per interval of the CDF sampled.    *)
(* Given names, the legal status of a family and dates play no part in the *)
(* control flow and are left out of the records.                           *)
(***************************************************************************)
EXTENDS Integers, Sequences, FiniteSets, TLC

VARIABLES
    po,          \* the options: num_people, num_generations
    gtree,       \* GTree: [people, families]
    pc,          \* position of the control flow
    core_i,      \* generate_core_branch: the loop variable i
    gperson_id,  \* generate_core_branch / generate_sub_branches: current person
    scan_len,    \* generate_sub_branches: len(gtree.people) when the pass began
    fr,          \* the locals of generate_family_incl_person
    trunk,       \* the persons gperson_id has named in generate_core_branch
    error,       \* the exception that ended the run, or "none"
    gedlines,    \* the exported records, one sequence of tags per record
    op, arg, res \* a call of one of the sampling functions and its result

vars == <<po, gtree, pc, core_i, gperson_id, scan_len, fr, trunk, error,
          gedlines, op, arg, res>>

progvars == <<po, gtree, pc, core_i, gperson_id, scan_len, fr, trunk, error,
              gedlines>>

callvars == <<op, arg, res>>

\* ------------------------------------------------------------------ bounds
MaxGen == 3
MaxPeople == 10
MaxLen == 3
MaxWeight == 2
MaxE == 6
MaxK == 2
MaxNumChildren == 2
MaxFamPeople == 4
MaxFactoryPeople == 3
MaxFactoryFamilies == 2

\* Python's None where an index is expected
None == -1

\* ---------------------------------------------------------------- rationals
Abs(x) == IF x < 0 THEN -x ELSE x

RECURSIVE GCD(_, _)
GCD(a, b) == IF b = 0 THEN a ELSE GCD(b, a % b)

Norm(n, d) == LET g == GCD(Abs(n), d) IN <<n \div g, d \div g>>

Zero == <<0, 1>>
One == <<1, 1>>
Rat(n, d) == Norm(n, d)

RAdd(x, y) ==
    LET g == GCD(x[2], y[2])
    IN  Norm(x[1] * (y[2] \div g) + y[1] * (x[2] \div g), (x[2] \div g) * y[2])

RNeg(x) == <<-x[1], x[2]>>
RSub(x, y) == RAdd(x, RNeg(y))

RMul(x, y) ==
    LET g1 == GCD(Abs(x[1]), y[2])
        g2 == GCD(Abs(y[1]), x[2])
    IN  IF x[1] = 0 \/ y[1] = 0 THEN Zero
        ELSE Norm((x[1] \div g1) * (y[1] \div g2), (x[2] \div g2) * (y[2] \div g1))

\* x / y for y > 0
RDiv(x, y) == RMul(x, <<y[2], y[1]>>)

RLt(x, y) ==
    LET g == GCD(x[2], y[2])
    IN  x[1] * (y[2] \div g) < y[1] * (x[2] \div g)

RLe(x, y) == ~RLt(y, x)

RECURSIVE SumTo(_)
\* sum(range(1, n + 1))
SumTo(n) == IF n <= 0 THEN 0 ELSE n + SumTo(n - 1)

Min(S) == CHOOSE x \in S : \A y \in S : x <= y

\* ------------------------------------------------------- sampling functions
RECURSIVE SumWeights(_)
SumWeights(wlist) ==
    IF wlist = <<>> THEN 0 ELSE Head(wlist).weight + SumWeights(Tail(wlist))

RECURSIVE CdfLoop(_, _, _, _)
\* the loop of weighted_list_to_cdf from element i on
CdfLoop(wlist, i, weightmax, cdf) ==
    IF i > Len(wlist) THEN [err |-> "none", cdf |-> cdf]
    ELSE IF weightmax = 0 THEN [err |-> "ZeroDivisionError", cdf |-> <<>>]
    ELSE LET prevtotal == IF cdf = <<>> THEN Zero ELSE cdf[Len(cdf)][1]
             prob == Rat(wlist[i].weight, weightmax)
             newtotal == RAdd(prevtotal, prob)
         IN  CdfLoop(wlist, i + 1, weightmax, Append(cdf, <<newtotal, wlist[i].s>>))

weighted_list_to_cdf_checked(wlist) ==
    IF wlist = <<>> \/ SumWeights(wlist) = 0
    THEN [err |-> "InvalidDistribution", cdf |-> <<>>]
    ELSE CdfLoop(wlist, 1, SumWeights(wlist), <<>>)

weighted_list_to_cdf(wlist) == CdfLoop(wlist, 1, SumWeights(wlist), <<>>)

\* One value of random.random() for each interval of cdf that a draw can fall in
RandomDraws(cdf) ==
    IF cdf = <<>> \/ cdf[Len(cdf)][1] = Zero THEN {Zero}
    ELSE LET probmax == cdf[Len(cdf)][1]
         IN  {Zero} \cup {RDiv(cdf[j][1], probmax) :
                            j \in {k \in 1..Len(cdf) : RLt(cdf[k][1], probmax)}}

\* cdf_random_value with random.random() = rnd; val is <<value>> when one is returned
cdf_random_value(cdf, rnd) ==
    IF cdf = <<>> THEN [err |-> "IndexError", val |-> <<>>]
    ELSE LET probmax == cdf[Len(cdf)][1]
             rand == RMul(rnd, probmax)
             hits == {i \in 1..Len(cdf) : RLt(rand, cdf[i][1])}
         IN  IF hits = {} THEN [err |-> "ValueError", val |-> <<>>]
             ELSE [err |-> "none", val |-> <<cdf[Min(hits)][2]>>]

RECURSIVE SmallCdfLoop(_, _, _, _, _)
\* the loop of cdf_random_value_not_in_list from entry i on
SmallCdfLoop(cdf, reject_list, i, probmin, smallcdf) ==
    IF i > Len(cdf) THEN smallcdf
    ELSE LET probupper == cdf[i][1]
             val == cdf[i][2]
             newtotal == IF smallcdf = <<>> THEN Zero ELSE smallcdf[Len(smallcdf)][1]
         IN  IF val \in reject_list
             THEN SmallCdfLoop(cdf, reject_list, i + 1, probupper, smallcdf)
             ELSE SmallCdfLoop(cdf, reject_list, i + 1, probupper,
                      Append(smallcdf, <<RAdd(newtotal, RSub(probupper, probmin)), val>>))

SmallCdf_keep_gap(cdf, reject_list) ==
    SelectSeq(cdf, LAMBDA e : e[2] \notin reject_list)

SmallCdf(cdf, reject_list) == SmallCdfLoop(cdf, reject_list, 1, Zero, <<>>)

cdf_random_value_not_in_list(cdf, reject_list, rnd) ==
    cdf_random_value(SmallCdf(cdf, reject_list), rnd)

\* The values cdf_random_value(cdf) can return
Outcomes(cdf) ==
    {r.val[1] : r \in {x \in {cdf_random_value(cdf, rnd) : rnd \in RandomDraws(cdf)} :
                          x.err = "none"}}

\* The values cdf_random_value_not_in_list(cdf, reject_list) can return
OutcomesNotInList(cdf, reject_list) == Outcomes(SmallCdf(cdf, reject_list))

\* ------------------------------------------------- demographic policy tables
RECURSIVE Accumulate(_, _, _)
\* newtotal = newtotal + prob; cdf.append((newtotal, n)) for each prob, n counting up
Accumulate(cdf, probs, n) ==
    IF probs = <<>> THEN cdf
    ELSE LET newtotal == IF cdf = <<>> THEN Zero ELSE cdf[Len(cdf)][1]
         IN  Accumulate(Append(cdf, <<RAdd(newtotal, Head(probs)), n>>), Tail(probs), n + 1)

\* int(expected_num * 3 / 2 + 1)
MaxNum(expected_num) == (expected_num * 3) \div 2 + 1

DegenerateProbs_6040 ==
    <<Rat(6, 10), Rat(4, 10)>>

\* expected_num == 0: prob = a * (1-n) + b for n in [0, 1]
DegenerateProbs ==
    LET a == RDiv(Rat(4, 10), Rat(1, 1))
        b == RDiv(Rat(6, 10), Rat(2, 1))
    IN  [k \in 1..2 |-> RAdd(RMul(a, Rat(1 - (k - 1), 1)), b)]

\* (1.0 / (max_num+1)) * (6/5 * expected_num + 1)
TotalUptoExpected(expected_num) ==
    RMul(Rat(1, MaxNum(expected_num) + 1),
         RAdd(RMul(Rat(6, 5), Rat(expected_num, 1)), One))

FirstHalfProbs_reversed(expected_num) ==
    LET tu == TotalUptoExpected(expected_num)
        a == RDiv(RMul(Rat(8, 10), tu), Rat(SumTo(expected_num) + 1, 1))
        b == RDiv(RMul(Rat(2, 10), tu), Rat(expected_num + 1, 1))
    IN  [k \in 1..(expected_num + 1) |->
            RAdd(RMul(a, Rat(expected_num + 1 - k, 1)), b)]

\* the probabilities of 0..expected_num, for expected_num >= 1
FirstHalfProbs(expected_num) ==
    LET tu == TotalUptoExpected(expected_num)
    IN  IF expected_num > 1
        THEN LET a == RDiv(RMul(Rat(8, 10), tu),
                           Rat(expected_num - 1 + SumTo(expected_num), 1))
                 b == RDiv(RMul(Rat(2, 10), tu), Rat(expected_num + 1, 1))
             IN  <<RAdd(RMul(a, Rat(expected_num - 1, 1)), b)>> \o
                 [n \in 1..expected_num |-> RAdd(RMul(a, Rat(n, 1)), b)]
        ELSE LET a == RDiv(RMul(Rat(2, 10), tu), Rat(1, 1))
                 b == RDiv(RMul(Rat(8, 10), tu), Rat(expected_num + 1, 1))
             IN  [k \in 1..2 |-> RAdd(RMul(a, Rat(k - 1, 1)), b)]

\* the probabilities of expected_num+1..max_num, for expected_num >= 1
SecondHalfProbs(expected_num) ==
    LET max_num == MaxNum(expected_num)
        ta == RSub(One, TotalUptoExpected(expected_num))
    IN  IF max_num - expected_num > 1
        THEN LET a == RDiv(RMul(Rat(8, 10), ta),
                           Rat(SumTo(max_num - expected_num - 1), 1))
                 b == RDiv(RMul(Rat(2, 10), ta), Rat(max_num - expected_num, 1))
             IN  [k \in 1..(max_num - expected_num) |->
                     RAdd(RMul(a, Rat(max_num - (expected_num + k), 1)), b)]
        ELSE [k \in 1..(max_num - expected_num) |-> ta]

num_of_children_cdf(expected_num) ==
    IF expected_num = 0 THEN Accumulate(<<>>, DegenerateProbs, 0)
    ELSE Accumulate(<<>>, FirstHalfProbs(expected_num) \o SecondHalfProbs(expected_num), 0)

person_sex_cdf ==
    << <<Rat(48, 100), "M">>, <<Rat(96, 100), "F">>, <<Rat(98, 100), "X">>,
       <<Rat(99, 100), "U">>, <<Rat(100, 100), "N">> >>

\* p(n): the difference of consecutive cumulative values, entry k of a cdf
Increment(cdf, k) == IF k = 1 THEN cdf[1][1] ELSE RSub(cdf[k][1], cdf[k - 1][1])

\* ------------------------------------------------------------ entity factory
\* Python's None where a surname is expected
SurnameNone == "<None>"

\* the rows of the surname table read from the CSV file
LastNamesMale ==
    << [s |-> "Nowak", weight |-> 2], [s |-> "Kowalski", weight |-> 1] >>

\* po.lastnames_male_cdf
lastnames_male_cdf == weighted_list_to_cdf(LastNamesMale).cdf

GPName(typ, surname) == [typ |-> typ, surn |-> surname]

GPerson(level, names, sex, families) ==
    [level |-> level, ind |-> <<>>, names |-> names, sex |-> sex,
     families |-> families, change_date |-> "None"]

GFamily(father, mother, children) ==
    [ind |-> <<>>, father |-> father, mother |-> mother, children |-> children,
     change_date |-> "None"]

\* gtree.people[gperson_id], gtree.families[gfamily_id]: indices count from 0
PersonAt(gt, id) == gt.people[id + 1]
FamilyAt(gt, id) == gt.families[id + 1]

\* "x in list" for a sequence
InSeq(x, seq) == \E k \in 1..Len(seq) : seq[k] = x

person_is_parent_in_families(gt, id) ==
    SelectSeq(PersonAt(gt, id).families,
              LAMBDA f : FamilyAt(gt, f).father = id \/ FamilyAt(gt, f).mother = id)

person_is_child_in_families(gt, id) ==
    SelectSeq(PersonAt(gt, id).families,
              LAMBDA f : InSeq(id, FamilyAt(gt, f).children))

\* gtree with person appended and family gfamily_id changed to fam
WithPerson(gt, gfamily_id, person, fam) ==
    [people |-> Append(gt.people, person),
     families |-> [gt.families EXCEPT ![gfamily_id + 1] = fam]]

create_father_child_first(gt, gfamily_id, surname, sex) ==
    LET gfamily == FamilyAt(gt, gfamily_id)
        from == IF Len(gfamily.children) > 0
                THEN [level |-> PersonAt(gt, gfamily.children[1]).level - 1,
                      surn |-> PersonAt(gt, gfamily.children[1]).names[1].surn]
                ELSE IF gfamily.mother # None
                THEN [level |-> PersonAt(gt, gfamily.mother).level,
                      surn |-> PersonAt(gt, gfamily.mother).names[1].surn]
                ELSE [level |-> 0, surn |-> ""]
        surn == IF surname = SurnameNone THEN from.surn ELSE surname
        gfather == [GPerson(from.level, <<GPName("birth", surn)>>, sex, <<gfamily_id>>)
                       EXCEPT !.change_date = "final_date"]
    IN  WithPerson(gt, gfamily_id, gfather, [gfamily EXCEPT !.father = Len(gt.people)])

create_father(gt, gfamily_id, surname, sex) ==
    LET gfamily == FamilyAt(gt, gfamily_id)
        from == IF gfamily.mother # None
                THEN [level |-> PersonAt(gt, gfamily.mother).level,
                      surn |-> PersonAt(gt, gfamily.mother).names[1].surn]
                ELSE IF Len(gfamily.children) > 0
                THEN [level |-> PersonAt(gt, gfamily.children[1]).level - 1,
                      surn |-> PersonAt(gt, gfamily.children[1]).names[1].surn]
                ELSE [level |-> 0, surn |-> ""]
        surn == IF surname = SurnameNone THEN from.surn ELSE surname
        gfather == [GPerson(from.level, <<GPName("birth", surn)>>, sex, <<gfamily_id>>)
                       EXCEPT !.change_date = "final_date"]
    IN  WithPerson(gt, gfamily_id, gfather, [gfamily EXCEPT !.father = Len(gt.people)])

create_mother_maiden_first(gt, gfamily_id, married_surname, maiden_surname, sex) ==
    LET gfamily == FamilyAt(gt, gfamily_id)
        from == IF gfamily.father # None
                THEN [level |-> PersonAt(gt, gfamily.father).level,
                      surn |-> PersonAt(gt, gfamily.father).names[1].surn]
                ELSE IF Len(gfamily.children) > 0
                THEN [level |-> PersonAt(gt, gfamily.children[1]).level - 1,
                      surn |-> PersonAt(gt, gfamily.children[1]).names[1].surn]
                ELSE [level |-> 0, surn |-> ""]
        surn == IF married_surname = SurnameNone THEN from.surn ELSE married_surname
        names == (IF maiden_surname # SurnameNone
                  THEN <<GPName("maiden", maiden_surname)>> ELSE <<>>) \o
                 <<GPName("married", surn)>>
        gmother == [GPerson(from.level, names, sex, <<gfamily_id>>)
                       EXCEPT !.change_date = "final_date"]
    IN  WithPerson(gt, gfamily_id, gmother, [gfamily EXCEPT !.mother = Len(gt.people)])

create_mother(gt, gfamily_id, married_surname, maiden_surname, sex) ==
    LET gfamily == FamilyAt(gt, gfamily_id)
        from == IF gfamily.father # None
                THEN [level |-> PersonAt(gt, gfamily.father).level,
                      surn |-> PersonAt(gt, gfamily.father).names[1].surn]
                ELSE IF Len(gfamily.children) > 0
                THEN [level |-> PersonAt(gt, gfamily.children[1]).level - 1,
                      surn |-> PersonAt(gt, gfamily.children[1]).names[1].surn]
                ELSE [level |-> 0, surn |-> ""]
        surn == IF married_surname = SurnameNone THEN from.surn ELSE married_surname
        names == <<GPName("married", surn)>> \o
                 (IF maiden_surname # SurnameNone
                  THEN <<GPName("maiden", maiden_surname)>> ELSE <<>>)
        gmother == [GPerson(from.level, names, sex, <<gfamily_id>>)
                       EXCEPT !.change_date = "final_date"]
    IN  WithPerson(gt, gfamily_id, gmother, [gfamily EXCEPT !.mother = Len(gt.people)])

create_child_not_listed(gt, gfamily_id, surname, sex) ==
    LET gfamily == FamilyAt(gt, gfamily_id)
        level == IF gfamily.father # None
                 THEN PersonAt(gt, gfamily.father).level + 1 ELSE 0
    IN  WithPerson(gt, gfamily_id,
                   GPerson(level, <<GPName("birth", surname)>>, sex, <<gfamily_id>>),
                   gfamily)

create_child(gt, gfamily_id, surname, sex) ==
    LET gfamily == FamilyAt(gt, gfamily_id)
        from == IF gfamily.father # None
                THEN [level |-> PersonAt(gt, gfamily.father).level + 1,
                      surn |-> PersonAt(gt, gfamily.father).names[1].surn]
                ELSE IF gfamily.mother # None
                THEN [level |-> PersonAt(gt, gfamily.mother).level + 1,
                      surn |-> PersonAt(gt, gfamily.mother).names[1].surn]
                ELSE IF Len(gfamily.children) > 0
                THEN [level |-> PersonAt(gt, gfamily.children[1]).level,
                      surn |-> PersonAt(gt, gfamily.children[1]).names[1].surn]
                ELSE [level |-> 0, surn |-> ""]
        surn == IF surname = SurnameNone THEN from.surn ELSE surname
        gchild == [GPerson(from.level, <<GPName("birth", surn)>>, sex, <<gfamily_id>>)
                      EXCEPT !.change_date = "final_date"]
    IN  WithPerson(gt, gfamily_id, gchild,
                   [gfamily EXCEPT !.children = Append(@, Len(gt.people))])

\* children_list holds no person twice, nor a parent: each member is linked once
create_family(gt, gfather_id, gmother_id, children_list) ==
    LET gfamily_id == Len(gt.families)
        members == ({gfather_id, gmother_id} \ {None}) \cup
                   {children_list[k] : k \in 1..Len(children_list)}
    IN  [people |-> [k \in 1..Len(gt.people) |->
                        IF k - 1 \in members
                        THEN [gt.people[k] EXCEPT !.families = Append(@, gfamily_id)]
                        ELSE gt.people[k]],
         families |-> Append(gt.families, GFamily(gfather_id, gmother_id, children_list))]

\* generate_child with sex given (every caller gives it); the given name is left out
generate_child(gt, gfamily_id, surname, sex) ==
    create_child(gt, gfamily_id, surname, sex)

\* generate_parent with sex given (every caller gives it); drawn_maiden is the
\* value cdf_random_value_not_in_list(po.lastnames_male_cdf, [surname]) returns
generate_parent(gt, gfamily_id, surname, maiden_surname, sex, drawn_maiden) ==
    LET gfamily == FamilyAt(gt, gfamily_id)
    IN  IF gfamily.father = None \/ (gfamily.mother # None /\ sex = "M")
        THEN create_father(gt, gfamily_id, surname, sex)
        ELSE create_mother(gt, gfamily_id, surname,
                           IF maiden_surname = SurnameNone THEN drawn_maiden
                           ELSE maiden_surname, sex)

\* whether generate_parent draws a maiden surname
DrawsMaiden(gt, gfamily_id, maiden_surname, sex) ==
    LET gfamily == FamilyAt(gt, gfamily_id)
    IN  /\ ~(gfamily.father = None \/ (gfamily.mother # None /\ sex = "M"))
        /\ maiden_surname = SurnameNone

\* the matches of family_get_random_child(…, None, None, sex)
family_get_random_child(gt, gfamily_id, sex) ==
    {c \in {FamilyAt(gt, gfamily_id).children[k] :
                k \in 1..Len(FamilyAt(gt, gfamily_id).children)} :
        sex # "None" => PersonAt(gt, c).sex = sex}

\* -------------------------------------------------------------- tree builder
\* what cdf_random_value(person_sex_cdf(po)) can return
SexOutcomes == Outcomes(person_sex_cdf)

\* what cdf_random_value(po.lastnames_male_cdf) can return
SurnameOutcomes == Outcomes(lastnames_male_cdf)

\* what cdf_random_value_not_in_list(po.lastnames_male_cdf, [surname]) can return
MaidenOutcomes ==
    [surname \in {SurnameNone} \cup {LastNamesMale[k].s : k \in 1..Len(LastNamesMale)} |->
        OutcomesNotInList(lastnames_male_cdf, {surname})]

\* what cdf_random_value(num_of_children_cdf(po, num_w)) can return
NumChildrenOutcomes == [num_w \in 0..8 |-> Outcomes(num_of_children_cdf(num_w))]

NoFrame ==
    [gperson_incl_id |-> None, gperson_role |-> "none", num_children |-> 0,
     min_male_children |-> 0, gfamily_id |-> None, gfather_id |-> None,
     gmother_id |-> None, min_children |-> 0, male_children |-> 0,
     max_children |-> 0, i |-> 0, ret |-> "none"]

\* the locals of generate_family_incl_person at its entry
Call(gperson_incl_id, gperson_role, num_children, min_male_children, ret) ==
    [NoFrame EXCEPT !.gperson_incl_id = gperson_incl_id,
                    !.gperson_role = gperson_role,
                    !.num_children = num_children,
                    !.min_male_children = min_male_children,
                    !.ret = ret]

Max(a, b) == IF a >= b THEN a ELSE b

\* min(int(1/3 * po.num_people / po.num_generations), 8)
core_branch_w ==
    LET w == po.num_people \div (3 * po.num_generations)
    IN  IF w < 8 THEN w ELSE 8

\* generate_family_incl_person: gfather_id, gmother_id, children_list, create_family
CreateFamily ==
    /\ pc = "gfip_create_family"
    /\ LET gfather_id == IF fr.gperson_role = "father" THEN fr.gperson_incl_id ELSE None
           gmother_id == IF fr.gperson_role = "mother" THEN fr.gperson_incl_id ELSE None
           children_list == IF fr.gperson_role = "child"
                            THEN <<fr.gperson_incl_id>> ELSE <<>>
       IN  /\ gtree' = create_family(gtree, gfather_id, gmother_id, children_list)
           /\ fr' = [fr EXCEPT !.gfather_id = gfather_id, !.gmother_id = gmother_id,
                               !.gfamily_id = Len(gtree.families)]
    /\ pc' = "gfip_father"
    /\ UNCHANGED <<po, core_i, gperson_id, scan_len, trunk, error, gedlines, callvars>>

\* generate_family_incl_person: if gfather_id is None: generate_parent(…, "M")
GenerateFather ==
    /\ pc = "gfip_father"
    /\ IF fr.gfather_id = None
       THEN \E drawn_maiden \in
                 IF DrawsMaiden(gtree, fr.gfamily_id, SurnameNone, "M")
                 THEN MaidenOutcomes[SurnameNone]
                 ELSE {SurnameNone} :
               /\ gtree' = generate_parent(gtree, fr.gfamily_id, SurnameNone,
                                           SurnameNone, "M", drawn_maiden)
               /\ fr' = [fr EXCEPT !.gfather_id = Len(gtree.people)]
       ELSE UNCHANGED <<gtree, fr>>
    /\ pc' = "gfip_mother"
    /\ UNCHANGED <<po, core_i, gperson_id, scan_len, trunk, error, gedlines, callvars>>

IsForcedSlot_never(i, max_children, min_male_children, male_children) ==
    FALSE

\* (i == max_children - min_male_children) and (male_children < min_male_children)
IsForcedSlot(i, max_children, min_male_children, male_children) ==
    i = max_children - min_male_children /\ male_children < min_male_children

Limits_no_extra(gt, f) ==
    LET gchild == IF f.gperson_role = "child" THEN f.gperson_incl_id ELSE None
        min_children == IF gchild # None THEN 1 ELSE 0
        male_children == IF gchild # None /\ PersonAt(gt, gchild).sex = "M" THEN 1 ELSE 0
    IN  [min_children |-> min_children, male_children |-> male_children,
         max_children |-> Max(f.num_children,
                              min_children +
                              Max(0, f.min_male_children - male_children))]

\* min_children, male_children, max_children before the children loop
Limits(gt, f) ==
    LET gchild == IF f.gperson_role = "child" THEN f.gperson_incl_id ELSE None
        min_children == IF gchild # None THEN 1 ELSE 0
        male_children == IF gchild # None /\ PersonAt(gt, gchild).sex = "M" THEN 1 ELSE 0
    IN  [min_children |-> min_children, male_children |-> male_children,
         max_children |-> Max(f.num_children,
                              min_children +
                              Max(0, f.min_male_children - male_children) + 1)]

\* generate_family_incl_person: if gmother_id is None: generate_parent(…, "F"),
\* then the limits on children
GenerateMother ==
    /\ pc = "gfip_mother"
    /\ IF fr.gmother_id = None
       THEN \E drawn_maiden \in
                 IF DrawsMaiden(gtree, fr.gfamily_id, SurnameNone, "F")
                 THEN MaidenOutcomes[SurnameNone]
                 ELSE {SurnameNone} :
               /\ gtree' = generate_parent(gtree, fr.gfamily_id, SurnameNone,
                                           SurnameNone, "F", drawn_maiden)
               /\ fr' = [fr EXCEPT !.gmother_id = Len(gtree.people),
                                   !.min_children = Limits(gtree, fr).min_children,
                                   !.male_children = Limits(gtree, fr).male_children,
                                   !.max_children = Limits(gtree, fr).max_children,
                                   !.i = Limits(gtree, fr).min_children]
       ELSE /\ gtree' = gtree
            /\ fr' = [fr EXCEPT !.min_children = Limits(gtree, fr).min_children,
                                !.male_children = Limits(gtree, fr).male_children,
                                !.max_children = Limits(gtree, fr).max_children,
                                !.i = Limits(gtree, fr).min_children]
    /\ pc' = "gfip_children"
    /\ UNCHANGED <<po, core_i, gperson_id, scan_len, trunk, error, gedlines, callvars>>

\* generate_family_incl_person: one turn of the children loop; after the last
\* turn the function returns to its caller
GenerateChild ==
    /\ pc = "gfip_children"
    /\ fr.i < fr.max_children
    /\ \E drawn \in SexOutcomes :
         LET sex == IF IsForcedSlot(fr.i, fr.max_children, fr.min_male_children,
                                    fr.male_children)
                    THEN "M" ELSE drawn
         IN  /\ gtree' = generate_child(gtree, fr.gfamily_id, SurnameNone, sex)
             /\ fr' = [fr EXCEPT !.male_children = IF sex = "M" THEN @ + 1 ELSE @,
                                 !.i = @ + 1]
    /\ pc' = IF fr.i + 1 < fr.max_children THEN "gfip_children" ELSE fr.ret
    /\ UNCHANGED <<po, core_i, gperson_id, scan_len, trunk, error, gedlines, callvars>>

\* generate_core_branch: the person who is the base of the branch
GenerateCoreRoot ==
    /\ pc = "core_root"
    /\ \E surname \in SurnameOutcomes :
         gtree' = [gtree EXCEPT !.people =
                      Append(@, GPerson(0, <<GPName("birth", surname)>>, "M", <<>>))]
    /\ gperson_id' = Len(gtree.people)
    /\ trunk' = <<Len(gtree.people)>>
    /\ core_i' = 1
    /\ pc' = "core_loop"
    /\ UNCHANGED <<po, scan_len, fr, error, gedlines, callvars>>

\* generate_core_branch: for i in range(1, num_h): a family around the trunk person
GenerateCoreFamily ==
    /\ pc = "core_loop"
    /\ IF core_i < po.num_generations
       THEN \E num_children \in NumChildrenOutcomes[core_branch_w] :
               /\ fr' = Call(gperson_id, "father", num_children, 1, "core_pick")
               /\ pc' = "gfip_create_family"
       ELSE /\ fr' = NoFrame
            /\ pc' = "while"
    /\ UNCHANGED <<po, gtree, core_i, gperson_id, scan_len, trunk, error, gedlines,
                   callvars>>

\* generate_core_branch: the next trunk person, a random male child of the family
PickTrunkChild ==
    /\ pc = "core_pick"
    /\ LET matches == family_get_random_child(gtree, fr.gfamily_id, "M")
       IN  IF matches = {}
           THEN /\ error' = "RuntimeError: No matching child found"
                /\ pc' = "failed"
                /\ UNCHANGED <<gperson_id, trunk, core_i>>
           ELSE /\ \E c \in matches :
                     /\ gperson_id' = c
                     /\ trunk' = Append(trunk, c)
                /\ core_i' = core_i + 1
                /\ pc' = "core_loop"
                /\ error' = error
    /\ UNCHANGED <<po, gtree, scan_len, fr, gedlines, callvars>>

\* gedcom_generate: while len(gtree.people) < po.num_people: generate_sub_branches
StartPass ==
    /\ pc = "while"
    /\ IF Len(gtree.people) < po.num_people
       THEN /\ scan_len' = Len(gtree.people)
            /\ gperson_id' = 0
            /\ pc' = "scan"
       ELSE /\ pc' = "reset"
            /\ UNCHANGED <<scan_len, gperson_id>>
    /\ fr' = NoFrame
    /\ UNCHANGED <<po, gtree, core_i, trunk, error, gedlines, callvars>>

NeedsSpouseFamily_any_level(gt, id) ==
    Len(person_is_parent_in_families(gt, id)) < 1

\* the person is not a parent and is below the last generation
NeedsSpouseFamily(gt, id) ==
    /\ Len(person_is_parent_in_families(gt, id)) < 1
    /\ PersonAt(gt, id).level + 1 < po.num_generations

NeedsParentFamily_already_child(gt, id) ==
    PersonAt(gt, id).level > 0

\* the person is not a child and is above generation 0
NeedsParentFamily(gt, id) ==
    /\ Len(person_is_child_in_families(gt, id)) < 1
    /\ PersonAt(gt, id).level > 0

PopulationReached_never(gt) == FALSE

\* len(gtree.people) >= po.num_people
PopulationReached(gt) == Len(gt.people) >= po.num_people

\* generate_sub_branches: one turn of the loop over range(0, len(gtree.people))
ScanPerson ==
    /\ pc = "scan"
    /\ IF gperson_id >= scan_len \/ PopulationReached(gtree)
       THEN /\ pc' = "while"
            /\ fr' = fr
       ELSE IF NeedsSpouseFamily(gtree, gperson_id)
       THEN \E num_children \in NumChildrenOutcomes[core_branch_w] :
               /\ fr' = Call(gperson_id,
                             IF PersonAt(gtree, gperson_id).sex = "F"
                             THEN "mother" ELSE "father",
                             num_children, 0, "sub_continue")
               /\ pc' = "gfip_create_family"
       ELSE IF NeedsParentFamily(gtree, gperson_id)
       THEN \E num_children \in NumChildrenOutcomes[core_branch_w] :
               /\ fr' = Call(gperson_id, "child", num_children, 0, "sub_continue")
               /\ pc' = "gfip_create_family"
       ELSE /\ pc' = "sub_continue"
            /\ fr' = fr
    /\ UNCHANGED <<po, gtree, core_i, gperson_id, scan_len, trunk, error, gedlines,
                   callvars>>

\* generate_sub_branches: on to the next gperson_id
NextPerson ==
    /\ pc = "sub_continue"
    /\ gperson_id' = gperson_id + 1
    /\ fr' = NoFrame
    /\ pc' = "scan"
    /\ UNCHANGED <<po, gtree, core_i, scan_len, trunk, error, gedlines, callvars>>

\* ------------------------------------------------- identifiers and the export
DigitChars == <<"0", "1", "2", "3", "4", "5", "6", "7", "8", "9">>

RECURSIVE Digits(_)
\* the decimal digits of n >= 0
Digits(n) ==
    IF n < 10 THEN <<DigitChars[n + 1]>>
    ELSE Digits(n \div 10) \o <<DigitChars[(n % 10) + 1]>>

RECURSIVE ZeroPad(_, _)
ZeroPad(digits, width) ==
    IF Len(digits) >= width THEN digits ELSE ZeroPad(<<"0">> \o digits, width)

Format05d_from_one(prefix, idx) == <<prefix>> \o ZeroPad(Digits(idx + 1), 5)

\* "{prefix}{:05d}".format(idx)
Format05d(prefix, idx) == <<prefix>> \o ZeroPad(Digits(idx), 5)

\* gtree.sources, gtree.notes and gtree.objects stay empty
gedcom_reset_identifiers(gt) ==
    [people |-> [k \in 1..Len(gt.people) |->
                    [gt.people[k] EXCEPT !.ind = Format05d("I", k - 1)]],
     families |-> [k \in 1..Len(gt.families) |->
                    [gt.families[k] EXCEPT !.ind = Format05d("F", k - 1)]]]

RECURSIVE Flatten(_)
Flatten(seqs) == IF seqs = <<>> THEN <<>> ELSE Head(seqs) \o Flatten(Tail(seqs))

\* the lines a person record gets for family f: FAMS, or FAMC with PEDI; none
\* when the person is no member of f, where the ValueError is raised
FamilyLink(gt, id, f) ==
    LET gfamily == FamilyAt(gt, f)
    IN  IF (gfamily.father # None /\ id = gfamily.father) \/
           (gfamily.mother # None /\ id = gfamily.mother)
        THEN <<"1 FAMS">>
        ELSE IF InSeq(id, gfamily.children)
        THEN <<"1 FAMC", "2 PEDI">>
        ELSE <<>>

\* raise ValueError("Person links to family but is not part of said family")
PersonRaises(gt, id) ==
    \E k \in 1..Len(PersonAt(gt, id).families) :
        FamilyLink(gt, id, PersonAt(gt, id).families[k]) = <<>>

\* the CHAN block of a family reads gperson, which the function does not define
FamilyRaises(gt, f) == FamilyAt(gt, f).change_date # "None"

\* the tags of the lines of one person record, when it does not raise; events,
\* objects, sources and notes are empty
gedcom_export_single_person(gt, id) ==
    LET gperson == PersonAt(gt, id)
    IN  <<"0 INDI">> \o
        Flatten([k \in 1..Len(gperson.names) |-> <<"1 NAME", "2 TYPE", "2 SURN">>]) \o
        <<"1 SEX">> \o
        Flatten([k \in 1..Len(gperson.families) |->
                    FamilyLink(gt, id, gperson.families[k])]) \o
        (IF gperson.change_date # "None" THEN <<"1 CHAN", "2 DATE">> ELSE <<>>)

\* the tags of the lines of one family record, when it does not raise
gedcom_export_single_family(gt, f) ==
    LET gfamily == FamilyAt(gt, f)
    IN  <<"0 FAM">> \o
        (IF gfamily.father # None THEN <<"1 HUSB">> ELSE <<>>) \o
        (IF gfamily.mother # None THEN <<"1 WIFE">> ELSE <<>>) \o
        [k \in 1..Len(gfamily.children) |-> "1 CHIL"]

\* the records written when none raises: HEAD, people, families, TRLR
ExportRecords(gt) ==
    << <<"0 HEAD">> >> \o
    [k \in 1..Len(gt.people) |-> gedcom_export_single_person(gt, k - 1)] \o
    [k \in 1..Len(gt.families) |-> gedcom_export_single_family(gt, k - 1)] \o
    << <<"0 TRLR">> >>

\* the exception the export ends with, or "none"
ExportError(gt) ==
    IF \E id \in 0..(Len(gt.people) - 1) : PersonRaises(gt, id) THEN "ValueError"
    ELSE IF \E f \in 0..(Len(gt.families) - 1) : FamilyRaises(gt, f) THEN "NameError"
    ELSE "none"

\* gedcom_generate: gedcom_reset_identifiers(po, gtree)
ResetIdentifiers ==
    /\ pc = "reset"
    /\ gtree' = gedcom_reset_identifiers(gtree)
    /\ pc' = "export"
    /\ UNCHANGED <<po, core_i, gperson_id, scan_len, fr, trunk, error, gedlines,
                   callvars>>

\* gedcom_generate: the records are written, unless one of them raises
ExportTree ==
    /\ pc = "export"
    /\ IF ExportError(gtree) = "none"
       THEN /\ gedlines' = ExportRecords(gtree)
            /\ error' = error
            /\ pc' = "done"
       ELSE /\ gedlines' = gedlines
            /\ error' = ExportError(gtree)
            /\ pc' = "failed"
    /\ UNCHANGED <<po, gtree, core_i, gperson_id, scan_len, fr, trunk, callvars>>

\* ----------------------------------------------------------- specifications
NoCall ==
    /\ op = "none"
    /\ arg = <<>>
    /\ res = <<>>

\* gedcom_generate from the parsed options to the written file
Init ==
    /\ po \in [num_people : 1..MaxPeople, num_generations : 1..MaxGen]
    /\ gtree = [people |-> <<>>, families |-> <<>>]
    /\ pc = "core_root"
    /\ core_i = 0
    /\ gperson_id = None
    /\ scan_len = 0
    /\ fr = NoFrame
    /\ trunk = <<>>
    /\ error = "none"
    /\ gedlines = <<>>
    /\ NoCall

Next ==
    \/ GenerateCoreRoot
    \/ GenerateCoreFamily
    \/ CreateFamily
    \/ GenerateFather
    \/ GenerateMother
    \/ GenerateChild
    \/ PickTrunkChild
    \/ StartPass
    \/ ScanPerson
    \/ NextPerson
    \/ ResetIdentifiers
    \/ ExportTree

Spec == Init /\ [][Next]_vars

\* the scheduling of a sequential program: it takes its next step
FairSpec == Spec /\ WF_vars(Next)

\* generate_family_incl_person called on a person of a tree it has built, in any
\* role, with any num_children and min_male_children
InitFam ==
    /\ po = [num_people |-> 0, num_generations |-> 0]
    /\ \E surname \in SurnameOutcomes :
         gtree = [people |-> <<GPerson(0, <<GPName("birth", surname)>>, "M", <<>>)>>,
                  families |-> <<>>]
    /\ pc = "fam_call"
    /\ core_i = 0
    /\ gperson_id = None
    /\ scan_len = 0
    /\ fr = NoFrame
    /\ trunk = <<>>
    /\ error = "none"
    /\ gedlines = <<>>
    /\ NoCall

CallGenerateFamily ==
    /\ pc = "fam_call"
    /\ Len(gtree.people) < MaxFamPeople
    /\ \E id \in 0..(Len(gtree.people) - 1),
          role \in {"father", "mother", "child"},
          num_children \in 0..MaxNumChildren,
          min_male_children \in 0..MaxK :
         fr' = Call(id, role, num_children, min_male_children, "fam_call")
    /\ pc' = "gfip_create_family"
    /\ UNCHANGED <<po, gtree, core_i, gperson_id, scan_len, trunk, error, gedlines,
                   callvars>>

NextFam ==
    \/ CallGenerateFamily
    \/ CreateFamily
    \/ GenerateFather
    \/ GenerateMother
    \/ GenerateChild

SpecFam == InitFam /\ [][NextFam]_vars

\* -------------------------------------------- calls of the sampling functions
Values == {"a", "b"}

WeightedStrings == [s : Values, weight : 0..MaxWeight]

WLists == UNION {[1..n -> WeightedStrings] : n \in 0..MaxLen}

InitCdf ==
    /\ po = [num_people |-> 0, num_generations |-> 0]
    /\ gtree = [people |-> <<>>, families |-> <<>>]
    /\ pc = "idle"
    /\ core_i = 0
    /\ gperson_id = None
    /\ scan_len = 0
    /\ fr = NoFrame
    /\ trunk = <<>>
    /\ error = "none"
    /\ gedlines = <<>>
    /\ NoCall

CallWeightedListToCdf ==
    /\ pc = "idle"
    /\ op = "none"
    /\ \E wlist \in WLists :
         /\ op' = "weighted_list_to_cdf"
         /\ arg' = [wlist |-> wlist]
         /\ res' = weighted_list_to_cdf(wlist)
    /\ UNCHANGED progvars

CallCdfRandomValue ==
    /\ pc = "idle"
    /\ op = "none"
    /\ \E wlist \in WLists :
         LET built == weighted_list_to_cdf(wlist)
         IN  /\ built.err = "none"
             /\ \E rnd \in RandomDraws(built.cdf) :
                  /\ op' = "cdf_random_value"
                  /\ arg' = [cdf |-> built.cdf, rnd |-> rnd]
                  /\ res' = cdf_random_value(built.cdf, rnd)
    /\ UNCHANGED progvars

CallCdfRandomValueNotInList ==
    /\ pc = "idle"
    /\ op = "none"
    /\ \E wlist \in WLists, v \in Values :
         LET built == weighted_list_to_cdf(wlist)
         IN  /\ built.err = "none"
             /\ \E rnd \in RandomDraws(SmallCdf(built.cdf, {v})) :
                  /\ op' = "cdf_random_value_not_in_list"
                  /\ arg' = [cdf |-> built.cdf, reject_list |-> {v}, rnd |-> rnd]
                  /\ res' = cdf_random_value_not_in_list(built.cdf, {v}, rnd)
    /\ UNCHANGED progvars

CallNumOfChildrenCdf ==
    /\ pc = "idle"
    /\ op = "none"
    /\ \E expected_num \in 0..MaxE :
         /\ op' = "num_of_children_cdf"
         /\ arg' = [expected_num |-> expected_num]
         /\ res' = num_of_children_cdf(expected_num)
    /\ UNCHANGED progvars

NextCdf ==
    \/ CallWeightedListToCdf
    \/ CallCdfRandomValue
    \/ CallCdfRandomValueNotInList
    \/ CallNumOfChildrenCdf

SpecCdf == InitCdf /\ [][NextCdf]_vars

\* ------------------------------------------------ calls of the entity factory
\* the surnames a caller passes: None, or one of the table
SurnameArgs == {SurnameNone} \cup {LastNamesMale[k].s : k \in 1..Len(LastNamesMale)}

\* the entity factory called on an empty tree, in any order, on any family
InitFactory ==
    /\ po = [num_people |-> 0, num_generations |-> 0]
    /\ gtree = [people |-> <<>>, families |-> <<>>]
    /\ pc = "factory"
    /\ core_i = 0
    /\ gperson_id = None
    /\ scan_len = 0
    /\ fr = NoFrame
    /\ trunk = <<>>
    /\ error = "none"
    /\ gedlines = <<>>
    /\ NoCall

\* create_family around no person, or around one person in one role
CallCreateFamily ==
    /\ pc = "factory"
    /\ Len(gtree.families) < MaxFactoryFamilies
    /\ \E role \in {"none", "father", "mother", "child"},
          id \in {None} \cup 0..(Len(gtree.people) - 1) :
         /\ (role = "none") <=> (id = None)
         /\ LET gfather_id == IF role = "father" THEN id ELSE None
                gmother_id == IF role = "mother" THEN id ELSE None
                children_list == IF role = "child" THEN <<id>> ELSE <<>>
            IN  /\ gtree' = create_family(gtree, gfather_id, gmother_id, children_list)
                /\ op' = "create_family"
                /\ arg' = [gt |-> gtree, gfather_id |-> gfather_id,
                           gmother_id |-> gmother_id, children_list |-> children_list]
                /\ res' = Len(gtree.families)
    /\ UNCHANGED <<po, pc, core_i, gperson_id, scan_len, fr, trunk, error, gedlines>>

\* create_father on a family that has no father yet
CallCreateFather ==
    /\ pc = "factory"
    /\ Len(gtree.people) < MaxFactoryPeople
    /\ \E gfamily_id \in 0..(Len(gtree.families) - 1), surname \in SurnameArgs :
         /\ FamilyAt(gtree, gfamily_id).father = None
         /\ gtree' = create_father(gtree, gfamily_id, surname, "M")
         /\ op' = "create_father"
         /\ arg' = [gt |-> gtree, gfamily_id |-> gfamily_id, surname |-> surname]
         /\ res' = Len(gtree.people)
    /\ UNCHANGED <<po, pc, core_i, gperson_id, scan_len, fr, trunk, error, gedlines>>

\* create_mother on a family that has no mother yet
CallCreateMother ==
    /\ pc = "factory"
    /\ Len(gtree.people) < MaxFactoryPeople
    /\ \E gfamily_id \in 0..(Len(gtree.families) - 1),
          married_surname \in SurnameArgs, maiden_surname \in SurnameArgs :
         /\ FamilyAt(gtree, gfamily_id).mother = None
         /\ gtree' = create_mother(gtree, gfamily_id, married_surname,
                                   maiden_surname, "F")
         /\ op' = "create_mother"
         /\ arg' = [gt |-> gtree, gfamily_id |-> gfamily_id,
                    surname |-> married_surname]
         /\ res' = Len(gtree.people)
    /\ UNCHANGED <<po, pc, core_i, gperson_id, scan_len, fr, trunk, error, gedlines>>

\* create_child on any family
CallCreateChild ==
    /\ pc = "factory"
    /\ Len(gtree.people) < MaxFactoryPeople
    /\ \E gfamily_id \in 0..(Len(gtree.families) - 1), surname \in SurnameArgs,
          sex \in {"M", "F"} :
         /\ gtree' = create_child(gtree, gfamily_id, surname, sex)
         /\ op' = "create_child"
         /\ arg' = [gt |-> gtree, gfamily_id |-> gfamily_id, surname |-> surname]
         /\ res' = Len(gtree.people)
    /\ UNCHANGED <<po, pc, core_i, gperson_id, scan_len, fr, trunk, error, gedlines>>

NextFactory ==
    \/ CallCreateFamily
    \/ CallCreateFather
    \/ CallCreateMother
    \/ CallCreateChild

SpecFactory == InitFactory /\ [][NextFactory]_vars

\* ===================================================================== claims
\* the steps of generate_family_incl_person
InFamilyCall == pc \in {"gfip_create_family", "gfip_father", "gfip_mother", "gfip_children"}

\* C1: in every state between two entity factory operations and in the finished
\* tree, family f is in p.families exactly when p is the father, the mother or a
\* listed child of f, and the export never raises the ValueError for a person
\* that links to a family it is no part of.
C1_LinksMutual ==
    LET nf == Len(gtree.families)
        Members(f) == ({gtree.families[f + 1].father, gtree.families[f + 1].mother}
                          \ {None})
                      \cup {gtree.families[f + 1].children[k] :
                               k \in 1..Len(gtree.families[f + 1].children)}
        Links(id) == {gtree.people[id + 1].families[k] :
                         k \in 1..Len(gtree.people[id + 1].families)}
    IN  /\ \A id \in 0..(Len(gtree.people) - 1) :
             Links(id) = {f \in 0..(nf - 1) : id \in Members(f)}
        /\ \A f \in 0..(nf - 1) : Members(f) \subseteq 0..(Len(gtree.people) - 1)
        /\ error # "ValueError"

C1_Witness ==
    /\ pc = "done"
    /\ Len(gtree.families) >= 4
    /\ \E id \in 0..(Len(gtree.people) - 1) :
         /\ Len(person_is_parent_in_families(gtree, id)) = 1
         /\ Len(person_is_child_in_families(gtree, id)) = 1
         /\ person_is_parent_in_families(gtree, id)[1]
                < person_is_child_in_families(gtree, id)[1]

\* the number of children of family f whose sex is M
MaleChildren(gt, f) ==
    Cardinality({k \in 1..Len(FamilyAt(gt, f).children) :
                    PersonAt(gt, FamilyAt(gt, f).children[k]).sex = "M"})

\* C2: when generate_family_incl_person has returned, the family it made holds
\* at least min_male_children children whose sex is M, for every role, every
\* num_children and every min_male_children.
C2_AtLeastKMaleChildren ==
    (pc = "fam_call" /\ fr.gfamily_id # None) =>
        MaleChildren(gtree, fr.gfamily_id) >= fr.min_male_children

\* C3: a pass of generate_sub_branches (started below the target) that runs to
\* the end of its range has added at least one person, so the while loop of
\* gedcom_generate comes to an end.
C3_PassAddsPeople ==
    (pc = "scan" /\ gperson_id >= scan_len) => Len(gtree.people) > scan_len

\* generate_core_branch has returned
TrunkBuilt ==
    \/ pc \in {"while", "scan", "sub_continue", "reset", "export", "done"}
    \/ InFamilyCall /\ fr.ret = "sub_continue"

\* C4: generate_core_branch never raises "No matching child found even though
\* we've forced one"; the persons it names are male, the k-th of them of level
\* k-1, the first the root, each next one a listed child of a family whose
\* father is the one before; and when it has returned they are num_generations.
C4_TrunkChain ==
    /\ error # "RuntimeError: No matching child found"
    /\ Len(trunk) <= po.num_generations
    /\ TrunkBuilt => Len(trunk) = po.num_generations
    /\ \A k \in 1..Len(trunk) :
         /\ PersonAt(gtree, trunk[k]).sex = "M"
         /\ PersonAt(gtree, trunk[k]).level = k - 1
         /\ k = 1 => trunk[k] = 0
         /\ k > 1 => \E f \in 0..(Len(gtree.families) - 1) :
                       /\ FamilyAt(gtree, f).father = trunk[k - 1]
                       /\ InSeq(trunk[k], FamilyAt(gtree, f).children)

C4_Witness ==
    /\ pc = "while"
    /\ po.num_generations = 3
    /\ Len(trunk) = 3
    /\ MaleChildren(gtree, 0) = 1
    /\ trunk[2] = FamilyAt(gtree, 0).children[Len(FamilyAt(gtree, 0).children)]

\* C5: in generate_sub_branches a family is attached only where
\* len(people) < num_people; a turn of the scan that finds
\* len(people) >= num_people ends the pass and attaches nothing; and when the
\* generation is complete len(people) >= num_people.
C5_PopulationRechecked ==
    /\ [](/\ (pc = "gfip_create_family" /\ fr.ret = "sub_continue") =>
                Len(gtree.people) < po.num_people
          /\ pc \in {"reset", "export", "done"} => Len(gtree.people) >= po.num_people)
    /\ [][(pc = "scan" /\ Len(gtree.people) >= po.num_people) =>
             (pc' = "while" /\ gtree' = gtree)]_vars
    /\ [][(TrunkBuilt /\ Len(gtree'.families) > Len(gtree.families)) =>
             Len(gtree.people) < po.num_people]_vars

C5_Witness ==
    /\ pc = "scan"
    /\ gperson_id < scan_len
    /\ Len(gtree.people) >= po.num_people
    /\ Len(gtree.people) > scan_len
    /\ NeedsParentFamily(gtree, gperson_id)

DigitValue(c) == CHOOSE d \in 0..9 : DigitChars[d + 1] = c

\* the number that five decimal digits write
FiveDigits(ind) ==
    DigitValue(ind[2]) * 10000 + DigitValue(ind[3]) * 1000 + DigitValue(ind[4]) * 100
        + DigitValue(ind[5]) * 10 + DigitValue(ind[6])

IsId(ind, prefix, idx) ==
    /\ Len(ind) = 6
    /\ ind[1] = prefix
    /\ \A k \in 2..6 : InSeq(ind[k], DigitChars)
    /\ FiveDigits(ind) = idx

\* C6: after gedcom_reset_identifiers the person at index i has the id "I" and
\* i in five digits, the family at index j the id "F" and j in five digits, so
\* the ids are pairwise distinct and count up from 0; and running it once more
\* changes no id.
C6_Identifiers ==
    pc \in {"export", "done"} =>
        /\ \A k \in 1..Len(gtree.people) : IsId(gtree.people[k].ind, "I", k - 1)
        /\ \A k \in 1..Len(gtree.families) : IsId(gtree.families[k].ind, "F", k - 1)
        /\ \A k, m \in 1..Len(gtree.people) :
             k # m => gtree.people[k].ind # gtree.people[m].ind
        /\ \A k, m \in 1..Len(gtree.families) :
             k # m => gtree.families[k].ind # gtree.families[m].ind
        /\ gedcom_reset_identifiers(gtree) = gtree

C6_Witness ==
    /\ pc = "done"
    /\ Len(gtree.people) >= 10
    /\ gtree.people[10].ind = <<"I", "0", "0", "0", "0", "9">>
    /\ Len(gtree.families) >= 3
    /\ gtree.families[3].ind = <<"F", "0", "0", "0", "0", "2">>

\* The indices of the entries of cdf whose value is not rejected, in order
Survivors(cdf, reject_list) ==
    SelectSeq([i \in 1..Len(cdf) |-> i], LAMBDA i : cdf[i][2] \notin reject_list)

C8_SampleExcluding ==
    op = "cdf_random_value_not_in_list" =>
        LET small == SmallCdf(arg.cdf, arg.reject_list)
            surv == Survivors(arg.cdf, arg.reject_list)
        IN  /\ res.err = "none" => res.val[1] \notin arg.reject_list
            /\ Len(small) = Len(surv)
            /\ \A k \in 1..Len(surv) :
                 /\ small[k][2] = arg.cdf[surv[k]][2]
                 /\ Increment(small, k) = Increment(arg.cdf, surv[k])
            /\ surv = <<>> => res.err # "none"

C8_Witness ==
    /\ op = "cdf_random_value_not_in_list"
    /\ res.err = "none"
    /\ \E i, j \in 1..Len(arg.cdf) :
         /\ i < j
         /\ arg.cdf[i][2] \in arg.reject_list
         /\ Increment(arg.cdf, i) # Zero
         /\ arg.cdf[j][2] \notin arg.reject_list
         /\ res.val[1] = arg.cdf[j][2]

\* C9 as stated: num_of_children_cdf(0) returns the outcomes 0 then 1 with
\* probability 0.60 for 0 and 0.40 for 1.
C9_SixtyForty ==
    (op = "num_of_children_cdf" /\ arg.expected_num = 0) =>
        /\ Len(res) = 2
        /\ res[1][2] = 0 /\ res[2][2] = 1
        /\ Increment(res, 1) = Rat(60, 100)
        /\ Increment(res, 2) = Rat(40, 100)

\* C9 as amended: num_of_children_cdf(0) returns the outcomes 0 then 1 with
\* probability 0.70 for 0 and 0.30 for 1.
C9_SeventyThirty ==
    (op = "num_of_children_cdf" /\ arg.expected_num = 0) =>
        /\ Len(res) = 2
        /\ res[1][2] = 0 /\ res[2][2] = 1
        /\ Increment(res, 1) = Rat(70, 100)
        /\ Increment(res, 2) = Rat(30, 100)

C9_Witness ==
    /\ op = "num_of_children_cdf"
    /\ arg.expected_num = 0
    /\ Len(res) = 2
    /\ res[2][1] = One

\* p(n) of the cdf in res
P(n) == Increment(res, n + 1)

\* the part of C10 that needs no amendment: the outcomes are 0..floor(1.5E)+1 in
\* order, p is non-increasing from E on, and p is 0 at most at the ends
C10_Shape ==
    LET E == arg.expected_num
        max_num == (3 * E) \div 2 + 1
    IN  /\ Len(res) = max_num + 1
        /\ \A n \in 0..max_num : res[n + 1][2] = n
        /\ \A n \in E..(max_num - 1) : RLe(P(n + 1), P(n))
        /\ \A n \in 1..(max_num - 1) : P(n) # Zero

\* C10 as stated: for E >= 1 the outcomes are 0..floor(1.5E)+1 in order,
\* p(n) <= p(n+1) for 0 <= n < E, p(n) >= p(n+1) for n >= E, and p(n) = 0 at most
\* at the minimum or maximum outcome.
C10_RisesFromZero ==
    (op = "num_of_children_cdf" /\ arg.expected_num >= 1) =>
        /\ C10_Shape
        /\ \A n \in 0..(arg.expected_num - 1) : RLe(P(n), P(n + 1))

\* C10 as amended: for E >= 1 the outcomes are 0..floor(1.5E)+1 in order,
\* p(n) <= p(n+1) for 1 <= n < E (for n = 0 only when E <= 2: p(0) = p(E-1) for
\* E >= 2), p(n) >= p(n+1) for n >= E, and p(n) = 0 at most at the minimum or
\* maximum outcome.
C10_RisesFromOne ==
    (op = "num_of_children_cdf" /\ arg.expected_num >= 1) =>
        /\ C10_Shape
        /\ \A n \in 1..(arg.expected_num - 1) : RLe(P(n), P(n + 1))
        /\ arg.expected_num <= 2 => RLe(P(0), P(1))
        /\ arg.expected_num >= 2 => P(0) = P(arg.expected_num - 1)

C10_Witness ==
    /\ op = "num_of_children_cdf"
    /\ arg.expected_num >= 3
    /\ RLt(P(1), P(0))
    /\ RLt(P(1), P(2))

\* C11: every person, the trunk root included, and every family has a change
\* date from its creation on, and in the written file every person record and
\* every family record holds a CHAN block.
C11_ChangeDates ==
    /\ \A k \in 1..Len(gtree.people) : gtree.people[k].change_date # "None"
    /\ \A k \in 1..Len(gtree.families) : gtree.families[k].change_date # "None"
    /\ pc = "done" =>
         \A r \in 2..(Len(gedlines) - 1) : InSeq("1 CHAN", gedlines[r])

\* the surname at names[0] of the person id of tree gt
PrimarySurname(gt, id) == PersonAt(gt, id).names[1].surn

\* the surname the claim gives a person created with surname None by factory
\* operation o on family gfamily of tree gt
InheritedSurname(o, gt, gfamily) ==
    LET first_child == IF Len(gfamily.children) > 0
                       THEN PrimarySurname(gt, gfamily.children[1]) ELSE ""
    IN  CASE o = "create_father" ->
                 IF gfamily.mother # None THEN PrimarySurname(gt, gfamily.mother)
                 ELSE first_child
          [] o = "create_mother" ->
                 IF gfamily.father # None THEN PrimarySurname(gt, gfamily.father)
                 ELSE first_child
          [] o = "create_child" ->
                 IF gfamily.father # None THEN PrimarySurname(gt, gfamily.father)
                 ELSE IF gfamily.mother # None
                 THEN PrimarySurname(gt, gfamily.mother)
                 ELSE first_child

\* C12: a person created with surname None takes, as father, the mother's
\* primary surname, else the first child's, else ""; as mother, the father's,
\* else the first child's, else ""; as child, the father's, else the mother's,
\* else the first sibling's, else ""; and its surname is never None.
C12_SurnameInherited ==
    op \in {"create_father", "create_mother", "create_child"} =>
        /\ PrimarySurname(gtree, res) # SurnameNone
        /\ arg.surname = SurnameNone =>
             PrimarySurname(gtree, res) =
                 InheritedSurname(op, arg.gt, FamilyAt(arg.gt, arg.gfamily_id))
        /\ arg.surname # SurnameNone => PrimarySurname(gtree, res) = arg.surname

C12_Witness ==
    /\ op = "create_father"
    /\ arg.surname = SurnameNone
    /\ LET gfamily == FamilyAt(arg.gt, arg.gfamily_id)
       IN  /\ gfamily.mother # None
           /\ Len(gfamily.children) > 0
           /\ PrimarySurname(arg.gt, gfamily.mother)
                  # PrimarySurname(arg.gt, gfamily.children[1])
           /\ PrimarySurname(gtree, res) = PrimarySurname(arg.gt, gfamily.mother)

\* generate_sub_branches is running a pass
InPass ==
    \/ pc \in {"scan", "sub_continue"}
    \/ InFamilyCall /\ fr.ret = "sub_continue"

\* the father, the mother and the listed children of family f
FamilyMembers(gt, f) ==
    ({FamilyAt(gt, f).father, FamilyAt(gt, f).mother} \ {None})
        \cup {FamilyAt(gt, f).children[k] : k \in 1..Len(FamilyAt(gt, f).children)}

\* C13: with num_generations = G, in every state the father and the mother of a
\* family (when both are there) have the same level, every child has the level
\* of its parents plus one, the root has level 0, every level is in 0..G-1, a
\* spouse-family is attached only below the last generation and a parent-family
\* only above generation 0.
C13_Levels ==
    /\ Len(gtree.people) > 0 => PersonAt(gtree, 0).level = 0
    /\ \A id \in 0..(Len(gtree.people) - 1) :
         PersonAt(gtree, id).level \in 0..(po.num_generations - 1)
    /\ \A f \in 0..(Len(gtree.families) - 1) :
         LET gfamily == FamilyAt(gtree, f)
         IN  /\ (gfamily.father # None /\ gfamily.mother # None) =>
                    PersonAt(gtree, gfamily.father).level
                        = PersonAt(gtree, gfamily.mother).level
             /\ \A k \in 1..Len(gfamily.children) :
                  /\ gfamily.father # None =>
                         PersonAt(gtree, gfamily.children[k]).level
                             = PersonAt(gtree, gfamily.father).level + 1
                  /\ gfamily.mother # None =>
                         PersonAt(gtree, gfamily.children[k]).level
                             = PersonAt(gtree, gfamily.mother).level + 1
    /\ (pc = "gfip_create_family" /\ fr.ret = "sub_continue") =>
         IF fr.gperson_role = "child"
         THEN PersonAt(gtree, fr.gperson_incl_id).level > 0
         ELSE PersonAt(gtree, fr.gperson_incl_id).level + 1 < po.num_generations

C13_Witness ==
    /\ pc = "done"
    /\ po.num_generations = 3
    /\ \E f \in 0..(Len(gtree.families) - 1) :
         LET gfamily == FamilyAt(gtree, f)
         IN  /\ gfamily.children[1] < gfamily.father
             /\ PersonAt(gtree, gfamily.father).level = 0
             /\ Len(gfamily.children) >= 2
    /\ \E id \in 0..(Len(gtree.people) - 1) :
         /\ PersonAt(gtree, id).level = 2
         /\ person_is_parent_in_families(gtree, id) = <<>>

\* the families attached in the running pass: those with a member made in the
\* pass, and the one generate_family_incl_person is building
NewInPass(gt) ==
    {f \in 0..(Len(gt.families) - 1) :
        \/ \E id \in FamilyMembers(gt, f) : id >= scan_len
        \/ InFamilyCall /\ f = fr.gfamily_id}

\* C14: in every state a person is father or mother in at most one family and
\* a listed child in at most one family; within a pass of generate_sub_branches
\* a person is the cause of at most one new family; and a parent-family is
\* attached only to a person who is due no spouse-family in that turn.
C14_OneFamilyPerRole ==
    /\ \A id \in 0..(Len(gtree.people) - 1) :
         /\ Len(person_is_parent_in_families(gtree, id)) <= 1
         /\ Len(person_is_child_in_families(gtree, id)) <= 1
    /\ InPass =>
         LET new == NewInPass(gtree)
         IN  \A f1 \in new, f2 \in new :
                 f1 < f2 =>
                     \A id \in FamilyMembers(gtree, f1) \cap FamilyMembers(gtree, f2) :
                         id >= scan_len
    /\ (pc = "gfip_create_family" /\ fr.ret = "sub_continue"
            /\ fr.gperson_role = "child") =>
         ~NeedsSpouseFamily(gtree, fr.gperson_incl_id)

C14_Witness ==
    /\ pc = "sub_continue"
    /\ fr.gperson_role = "child"
    /\ Len(person_is_parent_in_families(gtree, gperson_id)) = 1
    /\ Len(person_is_child_in_families(gtree, gperson_id)) = 1
    /\ {f \in NewInPass(gtree) : gperson_id \in FamilyMembers(gtree, f)}
           = {fr.gfamily_id}
    /\ \E id \in 0..(gperson_id - 1) :
         {f \in NewInPass(gtree) : id \in FamilyMembers(gtree, f)} # {}

\* C15: when generate_family_incl_person has returned, the family has a father,
\* a mother and exactly max(num_children, c + max(0, k - m) + 1) children, with
\* c = 1 when the included person is the child, m = 1 when that child is male
\* and k = min_male_children: at least num_children children, and at least one
\* child that the call generated.
C15_ChildrenCount ==
    (pc = "fam_call" /\ fr.gfamily_id # None) =>
        LET gfamily == FamilyAt(gtree, fr.gfamily_id)
            c == IF fr.gperson_role = "child" THEN 1 ELSE 0
            m == IF fr.gperson_role = "child"
                    /\ PersonAt(gtree, fr.gperson_incl_id).sex = "M" THEN 1 ELSE 0
            k == fr.min_male_children
        IN  /\ gfamily.father # None
            /\ gfamily.mother # None
            /\ Len(gfamily.children) = Max(fr.num_children, c + Max(0, k - m) + 1)
            /\ Len(gfamily.children) >= fr.num_children
            /\ Len(gfamily.children) - c >= 1

C15_Witness ==
    /\ pc = "fam_call"
    /\ fr.gfamily_id = 1
    /\ fr.gperson_role = "child"
    /\ PersonAt(gtree, fr.gperson_incl_id).sex = "F"
    /\ fr.min_male_children = 2
    /\ fr.num_children = 0
    /\ Len(FamilyAt(gtree, 1).children) = 4

\* C16: in every state the father, the mother (by the name at names[0], her
\* married name) and every child of a family have the same primary surname, and
\* every person has the primary surname of the trunk root; a maiden name may
\* differ.
C16_SameSurname ==
    /\ \A f \in 0..(Len(gtree.families) - 1) :
         \A a, b \in FamilyMembers(gtree, f) :
             PrimarySurname(gtree, a) = PrimarySurname(gtree, b)
    /\ \A id \in 0..(Len(gtree.people) - 1) :
         PrimarySurname(gtree, id) = PrimarySurname(gtree, 0)

C16_Witness ==
    /\ pc = "done"
    /\ \E f \in 0..(Len(gtree.families) - 1) :
         LET gfamily == FamilyAt(gtree, f)
             gchild == PersonAt(gtree, gfamily.children[1])
         IN  /\ gfamily.children[1] < gfamily.father
             /\ Len(gchild.names) = 2
             /\ gchild.names[2].surn # gchild.names[1].surn
             /\ PrimarySurname(gtree, gfamily.father) = gchild.names[1].surn
             /\ PrimarySurname(gtree, gfamily.mother) = gchild.names[1].surn

\* C17: a mother that generate_parent creates with a drawn maiden surname has
\* a maiden surname other than her married (primary) surname; the surname table
\* holds two surnames of positive weight.
C17_MaidenDiffers ==
    \A id \in 0..(Len(gtree.people) - 1) :
        Len(PersonAt(gtree, id).names) = 2 =>
            PersonAt(gtree, id).names[2].surn # PersonAt(gtree, id).names[1].surn

====
